---- MODULE Spec2Model ----
(***************************************************************************)
(* Model of llm_guard.vault.Vault: a list of (placeholder, value) tuples   *)
(* guarded by one threading.Lock per instance.                             *)
(*                                                                         *)
(* Python lists are objects: the model keeps a heap of list objects and    *)
(* the vault, the callers and the returned snapshots hold references into  *)
(* it, so that "copy" and "alias" are different things.  Every method is   *)
(* split into the steps a thread switch can separate: the call, the        *)
(* `with self._lock` entry, each statement (each iteration of a loop) of   *)
(* the body, and the exit of the `with` block.                             *)
(***************************************************************************)
EXTENDS Integers, Sequences, FiniteSets, Bags, TLC

\* ------------------------------------------------------------------ bounds
\* Total number of method calls made in one behaviour.
MaxOps == 3
\* Calls that add entries are made only while the vault holds fewer entries.
MaxLen == 2

\* ------------------------------------------------------------------ values
Threads == {"t1", "t2"}
Vaults == {"v1"}
NoThread == "free"
NoRef == "none"

Placeholders == {"[P1]", "[P2]"}
Values == {"a", "b"}
\* An entry is a Python 2-tuple (placeholder, original value).
Entries == Placeholders \X Values
NoEntry == <<"", "">>

\* The argument lists extend() is called with.
ExtendArgs ==
  {<<>>, <<<<"[P2]", "a">>, <<"[P1]", "a">>>>, <<<<"[P2]", "b">>, <<"[P2]", "b">>>>}

\* The list objects of the heap: the caller's seed list, the list each
\* vault creates when constructed without one, and the list most recently
\* returned to each thread.
SeedId == "seed"
OwnId(v) == "own_" \o v
SnapId(t) == "snap_" \o t
ListIds == {SeedId} \cup {OwnId(v) : v \in Vaults} \cup {SnapId(t) : t \in Threads}

\* What the constructor may be given: None or the caller's list.
SeedContents == {<<<<"[P1]", "a">>>>}

OpNames ==
  {"append", "extend", "remove", "get", "clear", "get_and_clear", "placeholder_exists"}

NoArg == [tuple |-> NoEntry, tuples |-> <<>>, placeholder |-> ""]
NoResult == [kind |-> "none", ref |-> NoRef, val |-> FALSE]
ListResult(id) == [kind |-> "list", ref |-> id, val |-> FALSE]
BoolResult(b) == [kind |-> "bool", ref |-> NoRef, val |-> b]

VARIABLES
  heap,      \* list id -> the list's elements
  tuples,    \* vault -> the list id held in self._tuples
  lock,      \* vault -> the thread holding self._lock, or NoThread
  pc,        \* thread -> position in the method it runs
  op,        \* thread -> the method called last
  self,      \* thread -> the vault it was called on
  arg,       \* thread -> the method's argument
  idx,       \* thread -> position of a loop over a list
  vault_data,\* thread -> get_and_clear's local variable (a list id)
  ret,       \* thread -> the value the call returns
  kept,      \* thread -> the list the caller was returned last (a list id)
  exc,       \* thread -> the exception the call raises, or "None"
  nops,      \* number of calls made
  \* History variables: they record what happened and guard no action.
  before,    \* thread -> the vault's entries when the thread took the lock
  abs,       \* vault -> its entries if every call so far had run alone, in lock order
  expect,    \* thread -> what its call returns if run alone at its turn
  addLog,    \* vault -> every entry put in, in the order they went in
  drained,   \* vault -> bag of the entries get_and_clear has handed out
  lossy,     \* vault -> a remove or a clear has discarded an entry
  sinceClear \* vault -> the entries put in since it was last emptied by clear
             \* or get_and_clear, in order (void once a remove took one out)

VARIABLE
  sent       \* thread -> the entries it passed to append, in call order, in
             \* the runs where the threads only append (SpecAppend)

mvars == <<heap, tuples, lock, pc, op, self, arg, idx, vault_data, ret, kept, exc, nops>>
hvars == <<before, abs, expect, addLog, drained, lossy, sinceClear>>
vars == <<mvars, hvars, sent>>

\* ------------------------------------------------------------ list methods
\* Variant of list.append that writes over the last element.
ListAppendOverwrite(s, x) ==
  IF s = <<>> THEN <<x>> ELSE [s EXCEPT ![Len(s)] = x]

\* Variants of list.append: at the front; not at all when the placeholder
\* is already there.
ListAppendFront(s, x) == <<x>> \o s
ListAppendNewPlaceholder(s, x) ==
  IF \E i \in 1..Len(s) : s[i][1] = x[1] THEN s ELSE Append(s, x)

\* list.append(x)
ListAppend(s, x) == Append(s, x)

\* list.copy(): a new list with the same elements in the same order
ListCopy(s) == [i \in 1..Len(s) |-> s[i]]

\* list.clear()
ListClear(s) == SubSeq(s, 1, 0)

\* Variant of the scan of list.remove: from the back.
RECURSIVE ListRemoveLast(_, _)
ListRemoveLast(s, x) ==
  IF s = <<>> THEN <<>>
  ELSE IF s[Len(s)] = x THEN SubSeq(s, 1, Len(s) - 1)
  ELSE ListRemoveLast(SubSeq(s, 1, Len(s) - 1), x) \o <<s[Len(s)]>>

\* list.remove(x): scans from the front, deletes the first element equal to
\* x; raises ValueError when there is none.
RECURSIVE ListRemoveFirst(_, _)
ListRemoveFirst(s, x) ==
  IF s = <<>> THEN <<>>
  ELSE IF Head(s) = x THEN Tail(s)
  ELSE <<Head(s)>> \o ListRemoveFirst(Tail(s), x)

ListContains(s, x) == \E i \in 1..Len(s) : s[i] = x

\* Variant of list.remove that ignores a missing element.
ListRemoveSilent(s, x) == [list |-> ListRemoveFirst(s, x), exc |-> "None"]

ListRemove(s, x) ==
  IF ListContains(s, x)
    THEN [list |-> ListRemoveFirst(s, x), exc |-> "None"]
    ELSE [list |-> s, exc |-> "ValueError"]

\* list.extend(xs): appends the elements of xs in order
RECURSIVE ListExtend(_, _)
ListExtend(s, xs) ==
  IF xs = <<>> THEN s ELSE ListExtend(ListAppend(s, Head(xs)), Tail(xs))

\* The loop of placeholder_exists run to its end over list s.
RECURSIVE ScanPlaceholder(_, _)
ScanPlaceholder(s, p) ==
  IF s = <<>> THEN FALSE
  ELSE IF p = Head(s)[1] THEN TRUE
  ELSE ScanPlaceholder(Tail(s), p)

\* The bag of the elements of a list.
BagOf(s) ==
  [e \in {s[i] : i \in 1..Len(s)} |-> Cardinality({i \in 1..Len(s) : s[i] = e})]

\* The record kept in sinceClear: started afresh, one entry more, void.
LogFresh == [ok |-> TRUE, log |-> <<>>]
LogVoid == [ok |-> FALSE, log |-> <<>>]
LogAdd(f, e) == IF f.ok THEN [f EXCEPT !.log = Append(@, e)] ELSE f

\* ------------------------------------------------------------------ Vault
\* What a call yields: the vault's list afterwards, and the outcome the
\* caller sees (a returned list, a returned boolean, an exception).
Outcome(l, k, o, b, x) == [list |-> l, kind |-> k, out |-> o, val |-> b, exc |-> x]
NoOutcome == Outcome(<<>>, "none", <<>>, FALSE, "None")

\* Each method's body run from start to end on list s with no other thread
\* in between.
RunAlone(o, a, s) ==
  CASE o = "append" -> Outcome(ListAppend(s, a.tuple), "none", <<>>, FALSE, "None")
    [] o = "extend" -> Outcome(ListExtend(s, a.tuples), "none", <<>>, FALSE, "None")
    [] o = "remove" ->
         Outcome(ListRemove(s, a.tuple).list, "none", <<>>, FALSE, ListRemove(s, a.tuple).exc)
    [] o = "get" -> Outcome(s, "list", ListCopy(s), FALSE, "None")
    [] o = "clear" -> Outcome(ListClear(s), "none", <<>>, FALSE, "None")
    [] o = "get_and_clear" -> Outcome(ListClear(s), "list", ListCopy(s), FALSE, "None")
    [] o = "placeholder_exists" ->
         Outcome(s, "bool", <<>>, ScanPlaceholder(s, a.placeholder), "None")

\* The live list of vault v.
Contents(v) == heap[tuples[v]]

\* Vault.__init__(tuples): None makes a new empty list, anything else is
\* kept as given (the same list object).
VaultInit(v, seed) == IF seed = NoRef THEN OwnId(v) ELSE seed

\* Variant of the lock that lets every thread in.
LockNeverHeld(v) == TRUE

\* threading.Lock: acquire blocks while another thread holds the lock.
LockFree(v) == lock[v] = NoThread

\* Variant of the returned reference: the vault's own list, not a copy.
LiveRef(v, t) == tuples[v]

\* The reference self._tuples.copy() evaluates to: a new list object.
CopyRef(v, t) == SnapId(t)

InOp(t) == pc[t] # "idle"
InBody(t) == pc[t] \in {"body", "body2", "release"}

Init ==
  /\ \E seed \in {NoRef, SeedId}, c \in SeedContents :
       /\ tuples = [v \in Vaults |-> VaultInit(v, seed)]
       /\ heap = [i \in ListIds |-> IF i = SeedId /\ seed = SeedId THEN c ELSE <<>>]
  /\ lock = [v \in Vaults |-> NoThread]
  /\ pc = [t \in Threads |-> "idle"]
  /\ op = [t \in Threads |-> "none"]
  /\ self = [t \in Threads |-> CHOOSE v \in Vaults : TRUE]
  /\ arg = [t \in Threads |-> NoArg]
  /\ idx = [t \in Threads |-> 1]
  /\ vault_data = [t \in Threads |-> NoRef]
  /\ ret = [t \in Threads |-> NoResult]
  /\ kept = [t \in Threads |-> NoRef]
  /\ exc = [t \in Threads |-> "None"]
  /\ nops = 0
  /\ before = [t \in Threads |-> <<>>]
  /\ abs = [v \in Vaults |-> Contents(v)]
  /\ expect = [t \in Threads |-> NoOutcome]
  /\ addLog = [v \in Vaults |-> Contents(v)]
  /\ drained = [v \in Vaults |-> EmptyBag]
  /\ lossy = [v \in Vaults |-> FALSE]
  /\ sinceClear = [v \in Vaults |-> [ok |-> TRUE, log |-> Contents(v)]]
  /\ sent = [t \in Threads |-> <<>>]

\* A thread calls a method of a vault.  A thread that calls get or
\* get_and_clear again lets go of the list it was returned before.
Invoke(t, v, o, a) ==
  /\ ~InOp(t)
  /\ nops < MaxOps
  /\ nops' = nops + 1
  /\ pc' = [pc EXCEPT ![t] = "acquire"]
  /\ op' = [op EXCEPT ![t] = o]
  /\ self' = [self EXCEPT ![t] = v]
  /\ arg' = [arg EXCEPT ![t] = a]
  /\ IF o \in {"get", "get_and_clear"}
       THEN /\ kept' = [kept EXCEPT ![t] = NoRef]
            /\ heap' = [heap EXCEPT ![SnapId(t)] = <<>>]
       ELSE UNCHANGED <<kept, heap>>
  /\ UNCHANGED <<tuples, lock, idx, vault_data, ret, exc>>
  /\ UNCHANGED hvars

Call(t) ==
  /\ \E v \in Vaults :
       \/ \E e \in Entries :
            /\ Len(Contents(v)) < MaxLen
            /\ Invoke(t, v, "append", [NoArg EXCEPT !.tuple = e])
       \/ \E es \in ExtendArgs :
            /\ Len(Contents(v)) < MaxLen
            /\ Invoke(t, v, "extend", [NoArg EXCEPT !.tuples = es])
       \/ \E e \in Entries : Invoke(t, v, "remove", [NoArg EXCEPT !.tuple = e])
       \/ Invoke(t, v, "get", NoArg)
       \/ Invoke(t, v, "clear", NoArg)
       \/ Invoke(t, v, "get_and_clear", NoArg)
       \/ \E p \in Placeholders :
            Invoke(t, v, "placeholder_exists", [NoArg EXCEPT !.placeholder = p])
  /\ UNCHANGED sent

\* `with self._lock:` entry
lock_acquire(t) ==
  /\ pc[t] = "acquire"
  /\ LockFree(self[t])
  /\ lock' = [lock EXCEPT ![self[t]] = t]
  /\ pc' = [pc EXCEPT ![t] = "body"]
  /\ idx' = [idx EXCEPT ![t] = 1]
  /\ abs' = [abs EXCEPT ![self[t]] = RunAlone(op[t], arg[t], @).list]
  /\ expect' = [expect EXCEPT ![t] = RunAlone(op[t], arg[t], abs[self[t]])]
  /\ UNCHANGED <<heap, tuples, op, self, arg, vault_data, ret, exc, nops, sent, kept>>
  /\ before' = [before EXCEPT ![t] = Contents(self[t])]
  /\ UNCHANGED <<addLog, drained, lossy, sinceClear>>

\* self._tuples.append(new_tuple)
append(t) ==
  /\ pc[t] = "body" /\ op[t] = "append"
  /\ heap' = [heap EXCEPT ![tuples[self[t]]] = ListAppend(@, arg[t].tuple)]
  /\ pc' = [pc EXCEPT ![t] = "release"]
  /\ addLog' = [addLog EXCEPT ![self[t]] = Append(@, arg[t].tuple)]
  /\ sinceClear' = [sinceClear EXCEPT ![self[t]] = LogAdd(@, arg[t].tuple)]
  /\ UNCHANGED <<tuples, lock, op, self, arg, idx, vault_data, ret, exc, nops, sent, kept>>
  /\ UNCHANGED <<before, abs, expect, drained, lossy>>

\* Variant of extend whose loop stops one element early.
extend_short(t) ==
  /\ pc[t] = "body" /\ op[t] = "extend"
  /\ IF idx[t] < Len(arg[t].tuples)
       THEN /\ heap' = [heap EXCEPT ![tuples[self[t]]] = ListAppend(@, arg[t].tuples[idx[t]])]
            /\ idx' = [idx EXCEPT ![t] = @ + 1]
            /\ addLog' = [addLog EXCEPT ![self[t]] = Append(@, arg[t].tuples[idx[t]])]
            /\ sinceClear' = [sinceClear EXCEPT ![self[t]] = LogAdd(@, arg[t].tuples[idx[t]])]
            /\ pc' = pc
       ELSE /\ pc' = [pc EXCEPT ![t] = "release"]
            /\ UNCHANGED <<heap, idx, addLog, sinceClear>>
  /\ UNCHANGED <<tuples, lock, op, self, arg, vault_data, ret, exc, nops, sent, kept>>
  /\ UNCHANGED <<before, abs, expect, drained, lossy>>

\* self._tuples.extend(new_tuples): one element of the argument at a time
extend(t) ==
  /\ pc[t] = "body" /\ op[t] = "extend"
  /\ IF idx[t] <= Len(arg[t].tuples)
       THEN /\ heap' = [heap EXCEPT ![tuples[self[t]]] = ListAppend(@, arg[t].tuples[idx[t]])]
            /\ idx' = [idx EXCEPT ![t] = @ + 1]
            /\ addLog' = [addLog EXCEPT ![self[t]] = Append(@, arg[t].tuples[idx[t]])]
            /\ sinceClear' = [sinceClear EXCEPT ![self[t]] = LogAdd(@, arg[t].tuples[idx[t]])]
            /\ pc' = pc
       ELSE /\ pc' = [pc EXCEPT ![t] = "release"]
            /\ UNCHANGED <<heap, idx, addLog, sinceClear>>
  /\ UNCHANGED <<tuples, lock, op, self, arg, vault_data, ret, exc, nops, sent, kept>>
  /\ UNCHANGED <<before, abs, expect, drained, lossy>>

\* self._tuples.remove(tuple_to_remove)
remove(t) ==
  /\ pc[t] = "body" /\ op[t] = "remove"
  /\ LET r == ListRemove(Contents(self[t]), arg[t].tuple)
     IN /\ heap' = [heap EXCEPT ![tuples[self[t]]] = r.list]
        /\ exc' = [exc EXCEPT ![t] = r.exc]
        /\ lossy' = [lossy EXCEPT ![self[t]] = @ \/ r.exc = "None"]
        /\ sinceClear' = [sinceClear EXCEPT ![self[t]] = IF r.exc = "None" THEN LogVoid ELSE @]
  /\ pc' = [pc EXCEPT ![t] = "release"]
  /\ UNCHANGED <<tuples, lock, op, self, arg, idx, vault_data, ret, nops, sent, kept>>
  /\ UNCHANGED <<before, abs, expect, addLog, drained>>

\* Variant of get that empties the vault after copying it.
get_draining(t) ==
  /\ pc[t] = "body" /\ op[t] = "get"
  /\ LET c == ListCopy(Contents(self[t]))
     IN heap' = [heap EXCEPT ![SnapId(t)] = c, ![tuples[self[t]]] = ListClear(@)]
  /\ ret' = [ret EXCEPT ![t] = ListResult(CopyRef(self[t], t))]
  /\ pc' = [pc EXCEPT ![t] = "release"]
  /\ UNCHANGED <<tuples, lock, op, self, arg, idx, vault_data, exc, nops, sent, kept>>
  /\ UNCHANGED hvars

\* return self._tuples.copy()
get(t) ==
  /\ pc[t] = "body" /\ op[t] = "get"
  /\ LET c == ListCopy(Contents(self[t]))
     IN heap' = [heap EXCEPT ![SnapId(t)] = c]
  /\ ret' = [ret EXCEPT ![t] = ListResult(CopyRef(self[t], t))]
  /\ pc' = [pc EXCEPT ![t] = "release"]
  /\ UNCHANGED <<tuples, lock, op, self, arg, idx, vault_data, exc, nops, sent, kept>>
  /\ UNCHANGED hvars

\* Variant of clear that empties a copy and leaves the vault's list alone.
clear_copy(t) ==
  /\ pc[t] = "body" /\ op[t] = "clear"
  /\ pc' = [pc EXCEPT ![t] = "release"]
  /\ sinceClear' = [sinceClear EXCEPT ![self[t]] = LogFresh]
  /\ UNCHANGED <<heap, tuples, lock, op, self, arg, idx, vault_data, ret, exc, nops, sent, kept>>
  /\ UNCHANGED <<before, abs, expect, addLog, drained, lossy>>

\* self._tuples.clear()
clear(t) ==
  /\ pc[t] = "body" /\ op[t] = "clear"
  /\ heap' = [heap EXCEPT ![tuples[self[t]]] = ListClear(@)]
  /\ pc' = [pc EXCEPT ![t] = "release"]
  /\ lossy' = [lossy EXCEPT ![self[t]] = @ \/ Contents(self[t]) # <<>>]
  /\ sinceClear' = [sinceClear EXCEPT ![self[t]] = LogFresh]
  /\ UNCHANGED <<tuples, lock, op, self, arg, idx, vault_data, ret, exc, nops, sent, kept>>
  /\ UNCHANGED <<before, abs, expect, addLog, drained>>

\* Variant of get_and_clear made of get() followed by clear(): the lock is
\* let go after the copy.
get_and_clear_copy_unlocked(t) ==
  /\ pc[t] = "body" /\ op[t] = "get_and_clear"
  /\ LET c == ListCopy(Contents(self[t]))
     IN heap' = [heap EXCEPT ![SnapId(t)] = c]
  /\ vault_data' = [vault_data EXCEPT ![t] = CopyRef(self[t], t)]
  /\ lock' = [lock EXCEPT ![self[t]] = NoThread]
  /\ pc' = [pc EXCEPT ![t] = "body2"]
  /\ UNCHANGED <<tuples, op, self, arg, idx, ret, exc, nops, sent, kept>>
  /\ UNCHANGED hvars

\* vault_data = self._tuples.copy()
get_and_clear_copy(t) ==
  /\ pc[t] = "body" /\ op[t] = "get_and_clear"
  /\ LET c == ListCopy(Contents(self[t]))
     IN heap' = [heap EXCEPT ![SnapId(t)] = c]
  /\ vault_data' = [vault_data EXCEPT ![t] = CopyRef(self[t], t)]
  /\ pc' = [pc EXCEPT ![t] = "body2"]
  /\ UNCHANGED <<tuples, lock, op, self, arg, idx, ret, exc, nops, sent, kept>>
  /\ UNCHANGED hvars

\* Variant of the second half of get_and_clear that returns the copy and
\* forgets to empty the vault.
get_and_clear_keep(t) ==
  /\ pc[t] = "body2" /\ op[t] = "get_and_clear"
  /\ ret' = [ret EXCEPT ![t] = ListResult(vault_data[t])]
  /\ vault_data' = [vault_data EXCEPT ![t] = NoRef]
  /\ pc' = [pc EXCEPT ![t] = "release"]
  /\ drained' = [drained EXCEPT ![self[t]] = @ (+) BagOf(heap[vault_data[t]])]
  /\ sinceClear' = [sinceClear EXCEPT ![self[t]] = LogFresh]
  /\ UNCHANGED <<heap, tuples, lock, op, self, arg, idx, exc, nops, sent, kept>>
  /\ UNCHANGED <<before, abs, expect, addLog, lossy>>

\* self._tuples.clear(); return vault_data
get_and_clear_clear(t) ==
  /\ pc[t] = "body2" /\ op[t] = "get_and_clear"
  /\ heap' = [heap EXCEPT ![tuples[self[t]]] = ListClear(@)]
  /\ ret' = [ret EXCEPT ![t] = ListResult(vault_data[t])]
  /\ vault_data' = [vault_data EXCEPT ![t] = NoRef]
  /\ pc' = [pc EXCEPT ![t] = "release"]
  /\ drained' = [drained EXCEPT ![self[t]] = @ (+) BagOf(heap'[vault_data[t]])]
  /\ sinceClear' = [sinceClear EXCEPT ![self[t]] = LogFresh]
  /\ UNCHANGED <<tuples, lock, op, self, arg, idx, exc, nops, sent, kept>>
  /\ UNCHANGED <<before, abs, expect, addLog, lossy>>

\* Variant of placeholder_exists that returns False as soon as the first
\* entry does not match.
placeholder_exists_first_only(t) ==
  /\ pc[t] = "body" /\ op[t] = "placeholder_exists"
  /\ LET s == Contents(self[t])
     IN ret' = [ret EXCEPT ![t] =
                 BoolResult(s # <<>> /\ arg[t].placeholder = s[1][1])]
  /\ pc' = [pc EXCEPT ![t] = "release"]
  /\ UNCHANGED <<heap, tuples, lock, op, self, arg, idx, vault_data, exc, nops, sent, kept>>
  /\ UNCHANGED hvars

\* for entity_placeholder, _ in self._tuples: one iteration; the list
\* iterator reads the live list at its current index.
placeholder_exists(t) ==
  /\ pc[t] = "body" /\ op[t] = "placeholder_exists"
  /\ LET s == Contents(self[t])
     IN IF idx[t] > Len(s)
          THEN /\ ret' = [ret EXCEPT ![t] = BoolResult(FALSE)]
               /\ pc' = [pc EXCEPT ![t] = "release"]
               /\ idx' = idx
          ELSE IF arg[t].placeholder = s[idx[t]][1]
            THEN /\ ret' = [ret EXCEPT ![t] = BoolResult(TRUE)]
                 /\ pc' = [pc EXCEPT ![t] = "release"]
                 /\ idx' = idx
            ELSE /\ idx' = [idx EXCEPT ![t] = @ + 1]
                 /\ UNCHANGED <<ret, pc>>
  /\ UNCHANGED <<heap, tuples, lock, op, self, arg, vault_data, exc, nops, sent, kept>>
  /\ UNCHANGED hvars

\* Variant of the exit with acquire() and release() written by hand and no
\* try/finally: an exception leaves the lock held.
lock_release_unless_raised(t) ==
  /\ pc[t] = "release"
  /\ lock' = [lock EXCEPT ![self[t]] = IF exc[t] = "None" THEN NoThread ELSE @]
  /\ pc' = [pc EXCEPT ![t] = "idle"]
  /\ op' = [op EXCEPT ![t] = "none"]
  /\ arg' = [arg EXCEPT ![t] = NoArg]
  /\ exc' = [exc EXCEPT ![t] = "None"]
  /\ ret' = [ret EXCEPT ![t] = NoResult]
  /\ kept' = [kept EXCEPT ![t] = IF ret[t].kind = "list" THEN ret[t].ref ELSE @]
  /\ idx' = [idx EXCEPT ![t] = 1]
  /\ before' = [before EXCEPT ![t] = <<>>]
  /\ expect' = [expect EXCEPT ![t] = NoOutcome]
  /\ UNCHANGED <<heap, tuples, self, vault_data, nops, sent>>
  /\ UNCHANGED <<abs, addLog, drained, lossy, sinceClear>>

\* Leaving the `with` block releases the lock, on return and on exception;
\* the call is over, and the caller keeps the list it was returned.
lock_release(t) ==
  /\ pc[t] = "release"
  /\ lock' = [lock EXCEPT ![self[t]] = NoThread]
  /\ pc' = [pc EXCEPT ![t] = "idle"]
  /\ op' = [op EXCEPT ![t] = "none"]
  /\ arg' = [arg EXCEPT ![t] = NoArg]
  /\ exc' = [exc EXCEPT ![t] = "None"]
  /\ ret' = [ret EXCEPT ![t] = NoResult]
  /\ kept' = [kept EXCEPT ![t] = IF ret[t].kind = "list" THEN ret[t].ref ELSE @]
  /\ idx' = [idx EXCEPT ![t] = 1]
  /\ before' = [before EXCEPT ![t] = <<>>]
  /\ expect' = [expect EXCEPT ![t] = NoOutcome]
  /\ UNCHANGED <<heap, tuples, self, vault_data, nops, sent>>
  /\ UNCHANGED <<abs, addLog, drained, lossy, sinceClear>>

\* The caller changes a list that get or get_and_clear returned to it.
MutateReturned(t) ==
  /\ ~InOp(t)
  /\ kept[t] # NoRef
  /\ nops < MaxOps
  /\ nops' = nops + 1
  /\ \E e \in Entries : heap' = [heap EXCEPT ![kept[t]] = ListAppend(@, e)]
  /\ UNCHANGED <<tuples, lock, pc, op, self, arg, idx, vault_data, ret, kept, exc>>
  /\ UNCHANGED <<hvars, sent>>

Next ==
  \E t \in Threads :
    \/ Call(t)
    \/ lock_acquire(t)
    \/ append(t)
    \/ extend(t)
    \/ remove(t)
    \/ get(t)
    \/ clear(t)
    \/ get_and_clear_copy(t)
    \/ get_and_clear_clear(t)
    \/ placeholder_exists(t)
    \/ lock_release(t)
    \/ MutateReturned(t)

Spec == Init /\ [][Next]_vars

\* Threads that do nothing but append to the vault, each keeping count of
\* what it appended.
AppendCall(t) ==
  \E v \in Vaults, e \in Entries :
    /\ Invoke(t, v, "append", [NoArg EXCEPT !.tuple = e])
    /\ sent' = [sent EXCEPT ![t] = Append(@, e)]

NextAppend ==
  \E t \in Threads :
    \/ AppendCall(t)
    \/ lock_acquire(t)
    \/ append(t)
    \/ lock_release(t)

SpecAppend == Init /\ [][NextAppend]_vars

\* What a thread does between the entry and the exit of a `with` block, and
\* the exit.
Body(t) ==
  \/ append(t)
  \/ extend(t)
  \/ remove(t)
  \/ get(t)
  \/ clear(t)
  \/ get_and_clear_copy(t)
  \/ get_and_clear_clear(t)
  \/ placeholder_exists(t)
  \/ lock_release(t)

\* Fair scheduling: a thread that can run its body does; a thread waiting
\* for a lock that is free again and again gets it.
Fairness ==
  \A t \in Threads : WF_vars(Body(t)) /\ SF_vars(lock_acquire(t))

FairSpec == Spec /\ Fairness

\* Two vaults, each constructed with None or with one and the same list of
\* the caller.
Instances == {"v1", "v2"}

\* Each thread serves one request and works on that request's vault.
RequestVault(t) == IF t = "t1" THEN "v1" ELSE "v2"

InitInstances ==
  /\ \E seed1, seed2 \in {NoRef, SeedId}, c \in SeedContents :
       /\ tuples = [v \in Instances |-> VaultInit(v, IF v = "v1" THEN seed1 ELSE seed2)]
       /\ heap = [i \in ListIds \cup {OwnId(v) : v \in Instances} |->
                   IF i = SeedId /\ SeedId \in {seed1, seed2} THEN c ELSE <<>>]
  /\ lock = [v \in Instances |-> NoThread]
  /\ pc = [t \in Threads |-> "idle"]
  /\ op = [t \in Threads |-> "none"]
  /\ self = [t \in Threads |-> RequestVault(t)]
  /\ arg = [t \in Threads |-> NoArg]
  /\ idx = [t \in Threads |-> 1]
  /\ vault_data = [t \in Threads |-> NoRef]
  /\ ret = [t \in Threads |-> NoResult]
  /\ kept = [t \in Threads |-> NoRef]
  /\ exc = [t \in Threads |-> "None"]
  /\ nops = 0
  /\ before = [t \in Threads |-> <<>>]
  /\ abs = [v \in Instances |-> Contents(v)]
  /\ expect = [t \in Threads |-> NoOutcome]
  /\ addLog = [v \in Instances |-> Contents(v)]
  /\ drained = [v \in Instances |-> EmptyBag]
  /\ lossy = [v \in Instances |-> FALSE]
  /\ sinceClear = [v \in Instances |-> [ok |-> TRUE, log |-> Contents(v)]]
  /\ sent = [t \in Threads |-> <<>>]

\* A thread calls a method of its vault.
CallInstance(t) ==
  /\ \E v \in {RequestVault(t)} :
       \/ \E e \in Entries :
            /\ Len(Contents(v)) < MaxLen
            /\ Invoke(t, v, "append", [NoArg EXCEPT !.tuple = e])
       \/ \E es \in ExtendArgs :
            /\ Len(Contents(v)) < MaxLen
            /\ Invoke(t, v, "extend", [NoArg EXCEPT !.tuples = es])
       \/ \E e \in Entries : Invoke(t, v, "remove", [NoArg EXCEPT !.tuple = e])
       \/ Invoke(t, v, "get", NoArg)
       \/ Invoke(t, v, "clear", NoArg)
       \/ Invoke(t, v, "get_and_clear", NoArg)
  /\ UNCHANGED sent

\* The caller appends to the list it passed to a constructor.
SeedMutate(t) ==
  /\ ~InOp(t)
  /\ \E v \in DOMAIN tuples : tuples[v] = SeedId
  /\ Len(heap[SeedId]) < MaxLen
  /\ nops < MaxOps
  /\ nops' = nops + 1
  /\ \E e \in Entries : heap' = [heap EXCEPT ![SeedId] = ListAppend(@, e)]
  /\ UNCHANGED <<tuples, lock, pc, op, self, arg, idx, vault_data, ret, kept, exc>>
  /\ UNCHANGED <<hvars, sent>>

NextInstances ==
  \E t \in Threads :
    \/ CallInstance(t)
    \/ lock_acquire(t)
    \/ append(t)
    \/ extend(t)
    \/ remove(t)
    \/ get(t)
    \/ clear(t)
    \/ get_and_clear_copy(t)
    \/ get_and_clear_clear(t)
    \/ lock_release(t)
    \/ SeedMutate(t)

SpecInstances == InitInstances /\ [][NextInstances]_vars

\* ------------------------------------------------------------ properties
\* The call of thread t has run its body and is about to leave the lock:
\* what it returns or raises is decided.
AtReturn(t, o) == pc[t] = "release" /\ op[t] = o

\* The list a call hands to its caller.
Returned(t) == heap[ret[t].ref]

\* No thread is inside the body of a method of vault v.
Quiescent(v) == \A t \in Threads : self[t] = v => ~InBody(t)

\* What thread t's call has produced, in the shape of RunAlone's outcome.
Observed(t) ==
  Outcome(Contents(self[t]), ret[t].kind,
          IF ret[t].kind = "list" THEN Returned(t) ELSE <<>>, ret[t].val, exc[t])

\* C1. Atomic drain: whenever no call is in progress on a vault from which
\* nothing was removed or cleared, the entries handed out by all
\* get_and_clear calls together with the entries still in the vault are
\* exactly the entries put in, as bags (none lost, none twice), and so the
\* lengths add up.
C1_AtomicDrain ==
  \A v \in Vaults :
    (Quiescent(v) /\ ~lossy[v]) =>
      /\ drained[v] (+) BagOf(Contents(v)) = BagOf(addLog[v])
      /\ BagCardinality(drained[v]) + Len(Contents(v)) = Len(addLog[v])

\* C1 witness: entries were drained, and an entry appended around the drain
\* is still in the vault.
C1_Witness ==
  \E v \in Vaults :
    /\ \A t \in Threads : pc[t] = "idle"
    /\ ~lossy[v]
    /\ drained[v] # EmptyBag
    /\ Contents(v) # <<>>

\* C2. Linearizable: taking the calls in the order in which they took the
\* lock, each call returns or raises what its body run alone at its turn
\* returns or raises, and between calls the vault holds what those runs
\* leave.
C2_Linearizable ==
  /\ \A t \in Threads : pc[t] = "release" => Observed(t) = expect[t]
  /\ \A v \in Vaults : Quiescent(v) => Contents(v) = abs[v]

\* C2 witness: two calls overlap (one is done with its body while the
\* other waits for the lock) and the first has changed the vault.
C2_Witness ==
  \E t, u \in Threads :
    /\ t # u /\ self[t] = self[u]
    /\ pc[t] = "release" /\ pc[u] = "acquire"
    /\ Contents(self[t]) # before[t]

\* The threads inside the body of a method of vault v.
Inside(v) == {t \in Threads : self[t] = v /\ InBody(t)}

C4_OrderPreservation ==
  \A t \in Threads :
    (AtReturn(t, "get") /\ ~lossy[self[t]] /\ drained[self[t]] = EmptyBag) =>
      Returned(t) = addLog[self[t]]

\* C4 witness: get() returns three entries, not all the same.
C4_Witness ==
  \E t \in Threads :
    /\ AtReturn(t, "get") /\ ~lossy[self[t]] /\ drained[self[t]] = EmptyBag
    /\ Len(Returned(t)) >= 3
    /\ Returned(t)[1] # Returned(t)[2]

\* C5. Snapshot independence: a step in which a caller changes a list it
\* was returned leaves every vault's entries as they were, and any other
\* step leaves every list a caller still keeps as it was.
C5_SnapshotIndependence ==
  [][/\ \A t \in Threads :
          MutateReturned(t) => \A v \in Vaults : Contents(v)' = Contents(v)
     /\ \A u \in Threads :
          (kept[u] # NoRef /\ kept'[u] = kept[u] /\ ~MutateReturned(u)) =>
            heap'[kept[u]] = heap[kept[u]]]_vars

\* C5 witness: a caller has made the list it was returned longer than the
\* vault ever was, and the vault was emptied since.
C5_Witness ==
  \E t \in Threads :
    /\ kept[t] # NoRef
    /\ Len(heap[kept[t]]) > Len(addLog[self[t]])
    /\ Contents(self[t]) = <<>>
    /\ Len(addLog[self[t]]) > 0

\* C6. remove of an entry that is not in the vault raises ValueError (the
\* NotFound condition) and leaves the vault's entries as they were.
C6_RemoveAbsent ==
  \A t \in Threads :
    (AtReturn(t, "remove") /\ ~ListContains(before[t], arg[t].tuple)) =>
      /\ exc[t] = "ValueError"
      /\ Contents(self[t]) = before[t]

\* C6 witness: a remove has failed on a vault that holds other entries.
C6_Witness ==
  \E t \in Threads :
    /\ AtReturn(t, "remove")
    /\ ~ListContains(before[t], arg[t].tuple)
    /\ before[t] # <<>>
    /\ exc[t] = "ValueError"

\* The first position of x in s.
FirstIndex(s, x) == CHOOSE i \in 1..Len(s) : s[i] = x /\ \A j \in 1..(i - 1) : s[j] # x

\* C7. remove of an entry that is present raises nothing, makes the vault
\* one entry shorter and takes out the earliest equal entry: the entries
\* before and after it stay, in their order.
C7_RemovePresent ==
  \A t \in Threads :
    (AtReturn(t, "remove") /\ ListContains(before[t], arg[t].tuple)) =>
      LET i == FirstIndex(before[t], arg[t].tuple)
      IN /\ exc[t] = "None"
         /\ Len(Contents(self[t])) = Len(before[t]) - 1
         /\ Contents(self[t]) =
              SubSeq(before[t], 1, i - 1) \o SubSeq(before[t], i + 1, Len(before[t]))

\* C7 witness: the removed entry was in the vault twice, with another
\* entry in between.
C7_Witness ==
  \E t \in Threads :
    /\ AtReturn(t, "remove")
    /\ Len(before[t]) = 3
    /\ before[t][1] = arg[t].tuple
    /\ before[t][3] = arg[t].tuple
    /\ before[t][2] # arg[t].tuple

\* C8. get_and_clear returns the entries the vault held, in order, and
\* leaves the vault empty.
C8_GetAndClear ==
  \A t \in Threads :
    AtReturn(t, "get_and_clear") =>
      /\ ret[t].kind = "list"
      /\ Returned(t) = before[t]
      /\ Contents(self[t]) = <<>>
      /\ exc[t] = "None"

\* C8 witness: get_and_clear has returned two entries or more.
C8_Witness ==
  \E t \in Threads :
    /\ AtReturn(t, "get_and_clear")
    /\ Len(before[t]) >= 2
    /\ Len(Returned(t)) >= 2

\* C9. clear raises nothing and leaves the vault empty whatever it held; on
\* an empty vault it changes nothing.
C9_ClearIdempotent ==
  \A t \in Threads :
    AtReturn(t, "clear") =>
      /\ exc[t] = "None"
      /\ Contents(self[t]) = <<>>
      /\ before[t] = <<>> => Contents(self[t]) = before[t]

\* C9 witness: clear has run on a vault that an earlier call had emptied.
C9_Witness ==
  \E t \in Threads :
    /\ AtReturn(t, "clear")
    /\ before[t] = <<>>
    /\ lossy[self[t]]

\* An entry of s has the placeholder or the value of x.
SharesField(s, x) == \E i \in 1..Len(s) : s[i][1] = x[1] \/ s[i][2] = x[2]

\* C10. Duplicate tolerance: append of an entry whose placeholder or value
\* (or both) is already in the vault adds it at the end and keeps every
\* entry that was there: the vault is one entry longer.
C10_DuplicateTolerance ==
  \A t \in Threads :
    (AtReturn(t, "append") /\ SharesField(before[t], arg[t].tuple)) =>
      /\ Contents(self[t]) = before[t] \o <<arg[t].tuple>>
      /\ Len(Contents(self[t])) = Len(before[t]) + 1

\* C10 witness: the appended entry was already in the vault, placeholder
\* and value.
C10_Witness ==
  \E t \in Threads :
    /\ AtReturn(t, "append")
    /\ ListContains(before[t], arg[t].tuple)
    /\ Len(Contents(self[t])) = Len(before[t]) + 1

\* C11. placeholder_exists(p) returns True exactly when some entry of the
\* vault, at any position, has placeholder p; so it returns False on an
\* empty vault and when no entry with p is left.
C11_PlaceholderExists ==
  \A t \in Threads :
    AtReturn(t, "placeholder_exists") =>
      /\ ret[t].kind = "bool"
      /\ ret[t].val = (\E i \in 1..Len(before[t]) : before[t][i][1] = arg[t].placeholder)
      /\ before[t] = <<>> => ret[t].val = FALSE

\* C11 witness: the only entry with the placeholder is not the first one.
C11_Witness ==
  \E t \in Threads :
    /\ AtReturn(t, "placeholder_exists")
    /\ ret[t].val = TRUE
    /\ Len(before[t]) >= 2
    /\ before[t][1][1] # arg[t].placeholder

\* C14. The lock is released on every exit path: a lock is held only by a
\* thread that is inside a body of that vault, and the step that ends a
\* call, with or without an exception, leaves the vault's lock free.
C14_LockReleased ==
  /\ [](\A v \in Vaults :
          lock[v] # NoThread => (InBody(lock[v]) /\ self[lock[v]] = v))
  /\ [][\A t \in Threads :
          (pc[t] = "release" /\ pc'[t] = "idle") => lock'[self[t]] = NoThread]_vars

\* C14 witness: remove has failed inside the lock while the other thread
\* waits for the lock.
C14_Witness ==
  \E t, u \in Threads :
    /\ t # u /\ self[t] = self[u]
    /\ AtReturn(t, "remove") /\ exc[t] = "ValueError"
    /\ pc[u] = "acquire"

\* An extend on vault v has put in some of its entries and not yet all.
PartlyExtended(v) ==
  \E t \in Threads :
    /\ self[t] = v /\ pc[t] = "body" /\ op[t] = "extend"
    /\ 1 < idx[t] /\ idx[t] <= Len(arg[t].tuples)

\* A step in which thread u reads the vault's list for get, get_and_clear
\* or placeholder_exists.
ReadStep(u) == get(u) \/ get_and_clear_copy(u) \/ placeholder_exists(u)

\* C16. extend is one serialized step: no read of get, get_and_clear or
\* placeholder_exists happens while an extend has put in a proper
\* non-empty prefix of its entries.
C16_ExtendSerialized ==
  [][\A u \in Threads : ReadStep(u) => ~PartlyExtended(self[u])]_vars

\* C16 witness: an extend is halfway while the other thread has called a
\* reading method and waits.
C16_Witness ==
  \E u \in Threads :
    /\ PartlyExtended(self[u])
    /\ pc[u] = "acquire"
    /\ op[u] \in {"get", "get_and_clear", "placeholder_exists"}

\* append called on each element of es in order, starting from list s.
RECURSIVE AppendEach(_, _)
AppendEach(s, es) ==
  IF es = <<>> THEN s
  ELSE AppendEach(RunAlone("append", [NoArg EXCEPT !.tuple = Head(es)], s).list, Tail(es))

\* C17. extend(entries) leaves the vault as append called on each element
\* in order leaves it, and extend of the empty list leaves it unchanged.
C17_ExtendAsAppends ==
  \A t \in Threads :
    AtReturn(t, "extend") =>
      /\ Contents(self[t]) = AppendEach(before[t], arg[t].tuples)
      /\ exc[t] = "None"
      /\ arg[t].tuples = <<>> => Contents(self[t]) = before[t]

\* C17 witness: extend has added two entries to a vault that held one.
C17_Witness ==
  \E t \in Threads :
    /\ AtReturn(t, "extend")
    /\ Len(arg[t].tuples) = 2
    /\ before[t] # <<>>
    /\ Len(Contents(self[t])) = Len(before[t]) + 2

\* s is the beginning of r.
IsPrefix(s, r) == Len(s) <= Len(r) /\ SubSeq(r, 1, Len(s)) = s

\* C19. With get_and_clear no operation takes effect between the read and
\* the clear: between them the vault still holds exactly what was copied,
\* and when the call returns, on a vault with no remove or clear, the
\* entries drained so far and the entries in the vault are all the entries
\* put in.
C19_NoRaceInGetAndClear ==
  \A t \in Threads :
    /\ (pc[t] = "body2" /\ op[t] = "get_and_clear") =>
         Contents(self[t]) = heap[vault_data[t]]
    /\ (AtReturn(t, "get_and_clear") /\ ~lossy[self[t]]) =>
         drained[self[t]] (+) BagOf(Contents(self[t])) = BagOf(addLog[self[t]])

\* C19 witness, the race of the two-step form: a thread that holds the
\* non-empty result of get() has now cleared the vault, nothing was
\* drained, and an entry put in after its get() is neither in that result
\* nor in the vault.
C19_Witness ==
  \E t \in Threads :
    /\ AtReturn(t, "clear")
    /\ kept[t] # NoRef /\ heap[kept[t]] # <<>>
    /\ drained[self[t]] = EmptyBag
    /\ IsPrefix(heap[kept[t]], addLog[self[t]])
    /\ Len(addLog[self[t]]) > Len(heap[kept[t]])
    /\ before[t] = addLog[self[t]]
    /\ Contents(self[t]) = <<>>

\* C20. Reuse after drain: as long as no remove has taken an entry out
\* since, a vault emptied by clear or get_and_clear holds exactly the
\* entries put in after that, in order, whenever no call is inside a body;
\* and get returns exactly those, as does the copy get_and_clear takes
\* before it clears, so nothing cleared or already handed out comes back.
C20_ReuseAfterDrain ==
  /\ \A v \in Vaults :
       (Quiescent(v) /\ sinceClear[v].ok) => Contents(v) = sinceClear[v].log
  /\ \A t \in Threads :
       /\ (AtReturn(t, "get") /\ sinceClear[self[t]].ok) =>
            Returned(t) = sinceClear[self[t]].log
       /\ (pc[t] = "body2" /\ op[t] = "get_and_clear" /\ sinceClear[self[t]].ok) =>
            heap[vault_data[t]] = sinceClear[self[t]].log

\* C20 witness: entries were cleared or drained from the vault, and get()
\* now returns an entry put in afterwards and nothing else.
C20_Witness ==
  \E t \in Threads :
    /\ AtReturn(t, "get")
    /\ lossy[self[t]] \/ drained[self[t]] # EmptyBag
    /\ sinceClear[self[t]].ok
    /\ Len(Returned(t)) = 1
    /\ Len(addLog[self[t]]) >= 2

\* s is an interleaving of a and b: every element of a and of b exactly
\* once, those of a in the order of a, those of b in the order of b.
RECURSIVE IsShuffle(_, _, _)
IsShuffle(s, a, b) ==
  IF s = <<>> THEN a = <<>> /\ b = <<>>
  ELSE \/ a # <<>> /\ Head(a) = Head(s) /\ IsShuffle(Tail(s), Tail(a), b)
       \/ b # <<>> /\ Head(b) = Head(s) /\ IsShuffle(Tail(s), a, Tail(b))

\* C13. No lost updates: when the threads have finished their appends, the
\* vault holds what it held at the start followed by every appended entry
\* exactly once, so its length grew by the number of appends, and each
\* thread's entries stand in the order in which that thread appended them.
C13_NoLostUpdates ==
  \A v \in Vaults :
    (\A t \in Threads : pc[t] = "idle") =>
      \E t, u \in Threads :
        /\ t # u
        /\ LET n == Len(sent[t]) + Len(sent[u])
               k == Len(Contents(v)) - n
           IN /\ k >= 0
              /\ k + n = Len(addLog[v])
              /\ SubSeq(Contents(v), 1, k) = SubSeq(addLog[v], 1, k)
              /\ IsShuffle(SubSeq(Contents(v), k + 1, k + n), sent[t], sent[u])

\* C13 witness: both threads have appended and finished, one of them two
\* different entries, and one thread's append came between the other's two.
C13_Witness ==
  /\ \A t \in Threads : pc[t] = "idle"
  /\ \E t, u \in Threads, v \in Vaults :
       /\ t # u
       /\ Len(sent[t]) = 2 /\ sent[t][1] # sent[t][2]
       /\ Len(sent[u]) = 1 /\ sent[u][1] # sent[t][1] /\ sent[u][1] # sent[t][2]
       /\ Contents(v) = <<sent[t][1], sent[u][1], sent[t][2]>>

\* Some thread with a call in progress can take its next step.
CanStep ==
  \E u \in Threads :
    \/ InBody(u)
    \/ pc[u] = "acquire" /\ lock[self[u]] = NoThread

\* C15. Completion under fair scheduling: every invoked call returns or
\* raises; a call waiting for the lock stays waiting, without failing, until
\* it gets the lock; a call takes the lock once, when nobody holds it, and
\* starts no further call before it has left the body; and in no state are
\* all calls in progress stuck.
C15_Completion ==
  /\ \A t \in Threads : (pc[t] # "idle") ~> (pc[t] = "idle")
  /\ []((\E t \in Threads : InOp(t)) => CanStep)
  /\ [][\A t \in Threads :
          /\ pc[t] = "acquire" =>
               /\ pc'[t] \in {"acquire", "body"}
               /\ exc'[t] = "None" /\ op'[t] = op[t]
          /\ (pc[t] = "acquire" /\ pc'[t] = "body") =>
               lock[self[t]] = NoThread /\ lock'[self[t]] = t
          /\ InBody(t) =>
               /\ pc'[t] \in {"body", "body2", "release", "idle"}
               /\ pc'[t] # "idle" => (op'[t] = op[t] /\ lock'[self[t]] = t)]_vars

\* C15 witness: a thread waits for the lock while the other is in the
\* middle of the scan of placeholder_exists.
C15_Witness ==
  \E t, u \in Threads :
    /\ t # u /\ self[t] = self[u]
    /\ pc[u] = "acquire"
    /\ pc[t] = "body" /\ op[t] = "placeholder_exists" /\ idx[t] > 1

\* Thread t takes a step of a call on vault w: it enters, runs or leaves
\* the body.
OpStep(t, w) ==
  /\ self'[t] = w
  /\ <<pc[t], idx[t]>>' # <<pc[t], idx[t]>>

\* The caller changes a list while no call moves: the list it passed to a
\* constructor.
SeedStep == <<pc, idx>>' = <<pc, idx>> /\ heap'[SeedId] # heap[SeedId]

\* C12. Instance isolation: a step of a call on one vault leaves the
\* entries of every other vault, which are what get() returns there, as
\* they were.
C12_InstanceIsolation ==
  [][\A t \in Threads : \A v, w \in DOMAIN tuples :
       (v # w /\ OpStep(t, w)) => Contents(v)' = Contents(v)]_vars

\* C18. Exclusive ownership: the caller changing the list it passed to the
\* constructor leaves every vault's entries as they were; a step of a call
\* on a vault leaves that list as it was; and two vaults constructed with
\* the same list hold two different list objects, whatever step is taken.
C18_ExclusiveOwnership ==
  [][/\ SeedStep => \A v \in DOMAIN tuples : Contents(v)' = Contents(v)
     /\ \A t \in Threads : \A w \in DOMAIN tuples :
          (InBody(t) /\ OpStep(t, w)) => heap'[SeedId] = heap[SeedId]
     /\ \A v, w \in DOMAIN tuples : v # w => tuples[v] # tuples[w]]_vars

\* The calls that only read.
ReadOps == {"get", "placeholder_exists"}

\* C21. Read-only and never failing: from lock entry to return, a call of
\* get or placeholder_exists leaves the vault's entries and their order as
\* they were when it took the lock and raises nothing; at return get hands
\* out a list and placeholder_exists a boolean, whatever the vault holds.
C21_ReadOnly ==
  \A t \in Threads :
    (InBody(t) /\ op[t] \in ReadOps) =>
      /\ Contents(self[t]) = before[t]
      /\ exc[t] = "None"
      /\ pc[t] = "release" =>
           ret[t].kind = (IF op[t] = "get" THEN "list" ELSE "bool")

\* C21 witness: placeholder_exists returns FALSE on a vault holding two
\* entries, after scanning both, while the other thread has returned from
\* a get on the same vault and keeps the list it was given.
C21_Witness ==
  \E t, u \in Threads :
    /\ t # u
    /\ AtReturn(t, "placeholder_exists") /\ exc[t] = "None"
    /\ ret[t] = BoolResult(FALSE) /\ idx[t] = 3
    /\ Len(Contents(self[t])) = 2
    /\ kept[u] # NoRef /\ Len(heap[kept[u]]) >= 1

====
